---------------------------- MODULE Spec2Model ----------------------------
(***************************************************************************)
(* A model of ElectroInit (src/init.js): the SemverLite helpers, the       *)
(* release matcher pickElectronVersion, the recursive cache copy copyDir   *)
(* and the control flow of main().                                         *)
(*                                                                         *)
(* JavaScript strings are modelled as sequences of one-character strings,  *)
(* so that startsWith, split, includes, trim, toLowerCase and parseInt are *)
(* computed character by character as the runtime computes them.           *)
(* A missing (undefined) string field and the empty string are both        *)
(* falsy and are both modelled by the empty sequence.                      *)
(***************************************************************************)
EXTENDS Integers, Sequences, FiniteSets, TLC

(***************************************************************************)
(* Bounds of the model.                                                    *)
(***************************************************************************)
\* Longest release list handed to pickElectronVersion.
MaxReleases == 3

(***************************************************************************)
(* JavaScript values.                                                      *)
(***************************************************************************)
\* A number-or-null value: null is kept apart from every number.
Null == [isNull |-> TRUE, val |-> 0]

Num(n) == [isNull |-> FALSE, val |-> n]

\* parseInt's result: NaN is kept apart from every number.
NaN == [isNaN |-> TRUE, val |-> 0]

Finite(n) == [isNaN |-> FALSE, val |-> n]

\* ToNumber as the relational operators apply it: null converts to +0.
ToNumber(x) == IF x.isNull THEN 0 ELSE x.val

\* a === b on number-or-null values.
StrictEquals(a, b) == a.isNull = b.isNull /\ (~a.isNull => a.val = b.val)

\* a < b on number-or-null values (abstract relational comparison).
JsLess(a, b) == ToNumber(a) < ToNumber(b)

(***************************************************************************)
(* String primitives.                                                      *)
(***************************************************************************)
Digits == <<"0", "1", "2", "3", "4", "5", "6", "7", "8", "9">>

IsDigit(c) == \E i \in 1..Len(Digits) : Digits[i] = c

DigitVal(c) == (CHOOSE i \in 1..Len(Digits) : Digits[i] = c) - 1

IsSpace(c) == c = " "

\* String.prototype.startsWith with a one-character argument.
StartsWith(s, c) == Len(s) > 0 /\ s[1] = c

\* String.prototype.includes with a one-character argument.
Includes(s, c) == \E i \in 1..Len(s) : s[i] = c

\* String.prototype.split with a one-character separator: the pieces between
\* the separators, in order; a string without the separator is one piece.
RECURSIVE Split(_, _)
Split(s, sep) ==
  IF ~Includes(s, sep) THEN <<s>>
  ELSE LET i == CHOOSE k \in 1..Len(s) :
                  s[k] = sep /\ \A j \in 1..(k - 1) : s[j] # sep
       IN <<SubSeq(s, 1, i - 1)>> \o Split(SubSeq(s, i + 1, Len(s)), sep)

\* The digits of s read as a decimal number, most significant first.
RECURSIVE DigitsValue(_)
DigitsValue(s) ==
  IF s = <<>> THEN 0
  ELSE 10 * DigitsValue(SubSeq(s, 1, Len(s) - 1)) + DigitVal(s[Len(s)])

\* The longest prefix of s made of digits.
RECURSIVE DigitPrefix(_)
DigitPrefix(s) ==
  IF s = <<>> \/ ~IsDigit(s[1]) THEN <<>>
  ELSE <<s[1]>> \o DigitPrefix(Tail(s))

RECURSIVE SkipSpaces(_)
SkipSpaces(s) == IF s # <<>> /\ IsSpace(s[1]) THEN SkipSpaces(Tail(s)) ELSE s

\* parseInt(s, 10): leading white space is skipped, one sign is read, then the
\* longest run of digits; no digit at all gives NaN.
ParseInt(s) ==
  LET t == SkipSpaces(s)
      neg == StartsWith(t, "-")
      u == IF StartsWith(t, "-") \/ StartsWith(t, "+") THEN Tail(t) ELSE t
      d == DigitPrefix(u)
  IN IF d = <<>> THEN NaN
     ELSE Finite(IF neg THEN 0 - DigitsValue(d) ELSE DigitsValue(d))

(***************************************************************************)
(* SemverLite.                                                             *)
(***************************************************************************)
parseMajor(version) ==
  IF version = <<>> THEN Null
  ELSE LET clean == IF StartsWith(version, "v") THEN Tail(version) ELSE version
           major == ParseInt(Split(clean, ".")[1])
       IN IF major.isNaN THEN Null ELSE Num(major.val)

\* Mutant of normalizeVersion: a leading "v" is kept.
normalizeVersion_KeepMarker(version) == version

normalizeVersion(version) ==
  IF version = <<>> THEN <<>>
  ELSE IF StartsWith(version, "v") THEN Tail(version) ELSE version

\* parts[i] || 0 : a missing piece, NaN and 0 all give 0.
PartOrZero(parts, i) ==
  IF i > Len(parts) THEN 0
  ELSE IF parts[i].isNaN THEN 0 ELSE parts[i].val

parseSemver(version) ==
  LET clean == normalizeVersion(version)
      core == Split(clean, "-")[1]
      pieces == Split(core, ".")
      parts == [i \in 1..Len(pieces) |-> ParseInt(pieces[i])]
  IN [major |-> PartOrZero(parts, 1),
      minor |-> PartOrZero(parts, 2),
      patch |-> PartOrZero(parts, 3)]

\* Mutant of compareSemver: only the majors are compared.
compareSemver_MajorOnly(a, b) == a.major - b.major

compareSemver(a, b) ==
  IF a.major # b.major THEN a.major - b.major
  ELSE IF a.minor # b.minor THEN a.minor - b.minor
  ELSE a.patch - b.patch

isPreRelease(version) == Includes(normalizeVersion(version), "-")


(***************************************************************************)
(* ReleaseMatcher.  A release descriptor of the feed is a record of the    *)
(* four string fields the matcher reads: version, tag_name, node and       *)
(* deps.node (field depsNode).                                             *)
(***************************************************************************)
\* a || b || "" on strings.
FirstTruthy(a, b) == IF a # <<>> THEN a ELSE b

\* The null return value of pickElectronVersion.
NoSelection ==
  [isNull |-> TRUE, version |-> <<>>, node |-> <<>>, nodeMajor |-> Null,
   match |-> "none"]

\* { ...r, match: m }
Tagged(r, m) ==
  [isNull |-> FALSE, version |-> r.version, node |-> r.node,
   nodeMajor |-> r.nodeMajor, match |-> m]

\* The .map callback of pickElectronVersion.
normalizeRelease(r) ==
  LET node == FirstTruthy(r.node, r.depsNode)
  IN [version |-> normalizeVersion(FirstTruthy(r.version, r.tag_name)),
      node |-> node,
      nodeMajor |-> parseMajor(node)]

\* Mutant: the bundled major is not asked for.
hasVersionAndMajor_VersionOnly(r) == r.version # <<>>

\* The first .filter callback: r.version && r.nodeMajor !== null.
hasVersionAndMajor(r) == r.version # <<>> /\ ~r.nodeMajor.isNull

\* Mutant: pre-releases are kept.
notPreRelease_KeepAll(r) == TRUE

\* The second .filter callback: !isPreRelease(r.version).
notPreRelease(r) == ~isPreRelease(r.version)

candidatesOf(releases) ==
  LET mapped == [i \in 1..Len(releases) |-> normalizeRelease(releases[i])]
  IN SelectSeq(SelectSeq(mapped, hasVersionAndMajor), notPreRelease)

\* Mutant: the comparator's arguments are swapped (ascending order).
descendingByVersion_Ascending(a, b) ==
  compareSemver(parseSemver(a.version), parseSemver(b.version))

\* The sort comparator (a, b) => compareSemver(parseSemver(b.version),
\* parseSemver(a.version)): positive when b must come before a.
descendingByVersion(a, b) ==
  compareSemver(parseSemver(b.version), parseSemver(a.version))

\* Insert x into the sorted sequence s behind every element that does not
\* have to come after it.
RECURSIVE InsertStable(_, _)
InsertStable(s, x) ==
  IF s = <<>> THEN <<x>>
  ELSE IF descendingByVersion(Head(s), x) > 0 THEN <<x>> \o s
  ELSE <<Head(s)>> \o InsertStable(Tail(s), x)

\* Array.prototype.sort with the comparator above: a stable sort.
RECURSIVE sortDescending(_)
sortDescending(s) ==
  IF s = <<>> THEN <<>>
  ELSE InsertStable(sortDescending(SubSeq(s, 1, Len(s) - 1)), s[Len(s)])

\* Mutant: <= in place of ===.
exactOf_LowerOrEqual(candidates, localMajor) ==
  SelectSeq(candidates,
            LAMBDA r : ToNumber(r.nodeMajor) <= ToNumber(localMajor))

exactOf(candidates, localMajor) ==
  SelectSeq(candidates, LAMBDA r : StrictEquals(r.nodeMajor, localMajor))

\* Mutant: > in place of <.
lowerOf_Greater(candidates, localMajor) ==
  SelectSeq(candidates, LAMBDA r : JsLess(localMajor, r.nodeMajor))

lowerOf(candidates, localMajor) ==
  SelectSeq(candidates, LAMBDA r : JsLess(r.nodeMajor, localMajor))

pickElectronVersion(releases, localMajor) ==
  LET candidates == candidatesOf(releases)
      exact == exactOf(candidates, localMajor)
      lower == lowerOf(candidates, localMajor)
      sorted == sortDescending(candidates)
  IN IF Len(exact) > 0 THEN Tagged(sortDescending(exact)[1], "exact")
     ELSE IF Len(lower) > 0 THEN Tagged(sortDescending(lower)[1], "lower")
     ELSE IF Len(sorted) > 0 THEN Tagged(sorted[1], "any")
     ELSE NoSelection

(***************************************************************************)
(* The file system.  A path is the sequence of names below the working     *)
(* directory (<< >> is the working directory itself, which always exists); *)
(* a file system is a function from the existing paths to their nodes.     *)
(***************************************************************************)
DirNode == [kind |-> "dir", content |-> ""]

FileNode(c) == [kind |-> "file", content |-> c]

\* A directory entry that is neither a directory nor a regular file.
LinkNode(c) == [kind |-> "link", content |-> c]

IsPrefix(p, q) == Len(p) <= Len(q) /\ SubSeq(q, 1, Len(p)) = p

\* path.dirname
Dirname(p) == SubSeq(p, 1, Len(p) - 1)

\* path.join(dir, name)
Join(dir, name) == dir \o <<name>>

\* fs.existsSync
existsSync(fs, p) == p = <<>> \/ p \in DOMAIN fs

\* fs.readdirSync: the names of the entries of directory p.
readdirSync(fs, p) ==
  {q[Len(p) + 1] : q \in {r \in DOMAIN fs : Len(r) = Len(p) + 1 /\ IsPrefix(p, r)}}

isEmptyDir(fs, dir) ==
  IF ~existsSync(fs, dir) THEN TRUE
  ELSE readdirSync(fs, dir) = {}

\* fs.mkdirSync(dir, { recursive: true }): dir and its missing ancestors are
\* created, an existing directory is left as it is.
ensureDir(fs, dir) ==
  LET missing == {SubSeq(dir, 1, k) : k \in 1..Len(dir)} \ DOMAIN fs
  IN [q \in DOMAIN fs \cup missing |-> IF q \in missing THEN DirNode ELSE fs[q]]

\* fs.writeFileSync / fs.copyFileSync into an existing directory.
PutFile(fs, target, node) ==
  [q \in DOMAIN fs \cup {target} |-> IF q = target THEN node ELSE fs[q]]

writeFile(fs, target, content) ==
  PutFile(ensureDir(fs, Dirname(target)), target, FileNode(content))

\* Mutant: nothing is removed.
rmSync_Nothing(fs, dir) == fs

\* fs.rmSync(dir, { recursive: true, force: true })
rmSync(fs, dir) ==
  [q \in {r \in DOMAIN fs : ~IsPrefix(dir, r)} |-> fs[q]]

COPY_IGNORE == {"dist", "logs", ".git"}

\* What copyDir leaves behind: the file system, and whether it threw.
Returned(fs) == [threw |-> FALSE, fs |-> fs]

Threw(fs) == [threw |-> TRUE, fs |-> fs]

RECURSIVE copyDir(_, _, _, _)
RECURSIVE copyEntries(_, _, _, _, _)

\* Mutant: isRoot stays true below the root.
copyDir_IgnoreAtEveryLevel(fs, src, dest, isRoot) ==
  IF ~existsSync(fs, src) THEN Threw(fs)
  ELSE LET made == ensureDir(fs, dest)
       IN copyEntries(made, src, dest, TRUE, readdirSync(made, src))

copyDir(fs, src, dest, isRoot) ==
  IF ~existsSync(fs, src) THEN Threw(fs)
  ELSE LET made == ensureDir(fs, dest)
       IN copyEntries(made, src, dest, isRoot, readdirSync(made, src))

\* One pass of the for loop of copyDir over an entry of the listing.
copyEntry(fs, src, dest, isRoot, name) ==
  LET from == Join(src, name)
      to == Join(dest, name)
  IN IF isRoot /\ name \in COPY_IGNORE THEN Returned(fs)
     ELSE IF fs[from].kind = "dir" THEN copyDir(fs, from, to, FALSE)
     ELSE IF fs[from].kind = "file"
       THEN Returned(PutFile(ensureDir(fs, Dirname(to)), to, fs[from]))
     ELSE Returned(fs)

\* The for loop of copyDir over the listing read before the loop.
copyEntries(fs, src, dest, isRoot, names) ==
  IF names = {} THEN Returned(fs)
  ELSE LET name == CHOOSE n \in names : TRUE
           done == copyEntry(fs, src, dest, isRoot, name)
       IN IF done.threw THEN done
          ELSE copyEntries(done.fs, src, dest, isRoot, names \ {name})

(***************************************************************************)
(* The prompts.  A line typed by the user is a string; promptLine and      *)
(* confirm are applied to the line readline hands over.                    *)
(***************************************************************************)
\* String.prototype.trim over the white space of the model (the blank).
RECURSIVE TrimEnd(_)
TrimEnd(s) ==
  IF s # <<>> /\ IsSpace(s[Len(s)]) THEN TrimEnd(SubSeq(s, 1, Len(s) - 1)) ELSE s

Trim(s) == TrimEnd(SkipSpaces(s))

LowerChar(c) ==
  CASE c = "Y" -> "y" [] c = "E" -> "e" [] c = "S" -> "s"
    [] c = "N" -> "n" [] c = "O" -> "o" [] c = "P" -> "p" [] OTHER -> c

\* String.prototype.toLowerCase
ToLowerCase(s) == [i \in 1..Len(s) |-> LowerChar(s[i])]

\* promptLine resolves with the trimmed answer, or the default when that is
\* empty.
promptLine(answer, defaultValue) ==
  LET value == Trim(answer)
  IN IF value = <<>> THEN defaultValue ELSE value

\* Mutant: an empty answer counts as yes.
confirm_EmptyIsYes(answer, defaultYes) ==
  LET a == promptLine(answer, <<>>)
  IN IF a = <<>> THEN TRUE
     ELSE ToLowerCase(a) = <<"y">> \/ ToLowerCase(a) = <<"y", "e", "s">>

confirm(answer, defaultYes) ==
  LET a == promptLine(answer, <<>>)
  IN IF a = <<>> THEN defaultYes
     ELSE ToLowerCase(a) = <<"y">> \/ ToLowerCase(a) = <<"y", "e", "s">>

(***************************************************************************)
(* Program constants and the environment of a run.                         *)
(***************************************************************************)
DEFAULT_TARGET == <<"i", "n", "i", "t", "_", "s", "r", "c">>

TEMPLATE_DIR == DEFAULT_TARGET

\* path.resolve(process.cwd(), input) on the directory names of the model:
\* the path below the working directory that the input denotes.
resolve(input) ==
  CASE input = <<"i", "n", "i", "t", "_", "s", "r", "c">> -> <<"init_src">>
    [] input = <<".", "/", "i", "n", "i", "t", "_", "s", "r", "c">> -> <<"init_src">>
    [] input = <<"p", "r", "o", "j">> -> <<"proj">>

\* getNodeVersion applied to the trimmed output of `node -v` (empty: the
\* command failed or printed nothing); the empty result stands for null.
getNodeVersion(out) ==
  IF out = <<>> THEN <<>>
  ELSE IF StartsWith(out, "v") THEN Tail(out) ELSE out

(***************************************************************************)
(* The state.                                                              *)
(***************************************************************************)
VARIABLES
  pc,               \* where the program is
  forceRebuild,     \* --force was given
  enableAudit,      \* --audit was given
  isWindows,        \* process.platform === "win32"
  nodeOut,          \* what `node -v` printed (empty: nothing)
  npmOut,           \* what `npm -v` printed (empty: nothing)
  fs,               \* the file system below the working directory
  targetDir,        \* the resolved target directory
  useMirror,        \* the answer to "Configure npm mirror?"
  backendIndex,     \* index of the chosen backend, from 0
  releases,         \* the release list handed to pickElectronVersion
  nodeMajor,        \* the local major handed to pickElectronVersion
  selected,         \* what pickElectronVersion returned, or the manual entry
  installs,         \* the npm install invocations so far, with their outcome
  exited,           \* the process has ended
  exitCode,         \* its exit code, once it has
  fs0,              \* history: the file system when the run started
  asked,            \* history: the questions put to the user, in order
  overwriteAnswer,  \* history: the line typed at the overwrite question
  reuseChosen,      \* history: the user opted to reuse the cached scaffold
  deleted,          \* history: fs.rmSync was invoked on the target
  copied,           \* history: copyDir was invoked
  firstWrite,       \* history: the target when the first write into it began
  copyFailed,       \* history: copyDir threw
  installDeclined,  \* history: the install question was answered with no
  cmpVersions,      \* the version strings handed to parseSemver
  cmpResults        \* what compareSemver returned for each pair of them

envVars == <<forceRebuild, enableAudit, isWindows, nodeOut, npmOut>>

pickVars == <<releases, nodeMajor, selected>>

runVars == <<targetDir, useMirror, backendIndex, installs, exited, exitCode>>

histVars ==
  <<fs0, asked, overwriteAnswer, reuseChosen, deleted, copied, firstWrite,
    copyFailed, installDeclined>>

cmpVars == <<cmpVersions, cmpResults>>

vars == <<pc, fs, envVars, cmpVars, pickVars, runVars, histVars>>

NotAsked == [given |-> FALSE, line |-> <<>>]

Answered(line) == [given |-> TRUE, line |-> line]

\* The variables of a run of main() before anything was done.
RunNotStarted ==
  /\ targetDir = <<>>
  /\ useMirror = FALSE
  /\ backendIndex = 0
  /\ installs = <<>>
  /\ exited = FALSE
  /\ exitCode = 0
  /\ asked = <<>>
  /\ overwriteAnswer = NotAsked
  /\ reuseChosen = FALSE
  /\ deleted = FALSE
  /\ copied = FALSE
  /\ firstWrite = "none"
  /\ copyFailed = FALSE
  /\ installDeclined = FALSE

NothingPicked ==
  /\ releases = <<>>
  /\ nodeMajor = Null
  /\ selected = NoSelection

\* The environment of a call of a single function: no flags, no tools.
NoEnvironment ==
  /\ forceRebuild = FALSE
  /\ enableAudit = FALSE
  /\ isWindows = FALSE
  /\ nodeOut = <<>>
  /\ npmOut = <<>>

EmptyFs == [q \in {} |-> DirNode]

\* The results of compareSemver before it was called.
NoComparison == [ab |-> 0, ba |-> 0, bc |-> 0, ac |-> 0]

NothingCompared ==
  /\ cmpVersions = <<>>
  /\ cmpResults = NoComparison

(***************************************************************************)
(* Inputs of the matcher: release descriptors as the feed may hold them.   *)
(***************************************************************************)
Release(version, tag, node, depsNode) ==
  [version |-> version, tag_name |-> tag, node |-> node, depsNode |-> depsNode]

ReleaseTagged22_3_1 ==
  Release(<<>>, <<"v", "2", "2", ".", "3", ".", "1">>,
          <<>>, <<"2", "0", ".", "1", "1", ".", "1">>)

Release22_3_1 ==
  Release(<<"2", "2", ".", "3", ".", "1">>, <<>>,
          <<"2", "0", ".", "0", ".", "0">>, <<>>)

ReleaseMalformed ==
  Release(<<"a", "b", "c">>, <<>>,
          <<"2", "0", ".", "0", ".", "0">>, <<>>)

ReleaseBeta23_2_0 ==
  Release(<<"2", "3", ".", "2", ".", "0", "-", "b", "e", "t", "a", ".", "1">>, <<>>,
          <<"2", "0", ".", "0", ".", "0">>, <<>>)

Release21_10_0 ==
  Release(<<"2", "1", ".", "1", "0", ".", "0">>, <<>>,
          <<"1", "8", ".", "1", "2", ".", "1">>, <<>>)

Release21_9_9 ==
  Release(<<"2", "1", ".", "9", ".", "9">>, <<>>,
          <<"v", "1", "8", ".", "1", ".", "0">>, <<>>)

Release23_1_0 ==
  Release(<<"2", "3", ".", "1", ".", "0">>, <<>>,
          <<"2", "1", ".", "0", ".", "0">>, <<>>)

ReleaseNoVersion ==
  Release(<<>>, <<>>,
          <<"2", "0", ".", "0", ".", "0">>, <<>>)

ReleaseNoMajor ==
  Release(<<"2", "4", ".", "0", ".", "0">>, <<>>,
          <<"a", "b", "c">>, <<>>)

ReleaseNegativeMajor ==
  Release(<<"1", ".", "0", ".", "0">>, <<>>,
          <<"-", "1", ".", "0", ".", "0">>, <<>>)

ReleasePool ==
  {ReleaseTagged22_3_1, Release22_3_1, ReleaseMalformed,
   ReleaseBeta23_2_0, Release21_10_0, Release21_9_9,
   Release23_1_0, ReleaseNoVersion, ReleaseNoMajor,
   ReleaseNegativeMajor}

\* Every list of at most n releases of the pool.
ReleaseLists(n) == UNION {[1..k -> ReleasePool] : k \in 0..n}

LocalMajors == {Null, Num(17), Num(19), Num(20)}

(***************************************************************************)
(* pickElectronVersion as a call on arbitrary arguments.                   *)
(***************************************************************************)
InitPick ==
  /\ pc = "pick_call"
  /\ releases \in ReleaseLists(MaxReleases)
  /\ nodeMajor \in LocalMajors
  /\ selected = NoSelection
  /\ NoEnvironment
  /\ NothingCompared
  /\ RunNotStarted
  /\ fs = EmptyFs
  /\ fs0 = EmptyFs

PickCall ==
  /\ pc = "pick_call"
  /\ selected' = pickElectronVersion(releases, nodeMajor)
  /\ pc' = "pick_return"
  /\ UNCHANGED <<releases, nodeMajor, fs, envVars, cmpVars, runVars, histVars>>

NextPick == PickCall

SpecPick == InitPick /\ [][NextPick]_vars

(***************************************************************************)
(* Properties of the matcher.  The pools are stated here from the data     *)
(* model, over the indices of the release list, apart from the filters     *)
(* and the sort of pickElectronVersion.                                    *)
(***************************************************************************)
PickReturned == pc = "pick_return"

\* Release i as {version, bundledRuntimeMajor}.
Descriptor(i) == normalizeRelease(releases[i])

\* Release i survives: a usable version string, a resolvable bundled major,
\* and no pre-release part behind a "-".
Survives(i) ==
  LET d == Descriptor(i)
  IN /\ d.version # <<>>
     /\ ~d.nodeMajor.isNull
     /\ \A k \in 1..Len(d.version) : d.version[k] # "-"

CandidatePool == {i \in 1..Len(releases) : Survives(i)}

\* The candidates whose bundled major is the (known) local major.
ExactPool ==
  {i \in CandidatePool :
     ~nodeMajor.isNull /\ Descriptor(i).nodeMajor.val = nodeMajor.val}

\* The candidates whose bundled major is below the local major; against a
\* null local major the comparison is the language's (null counts as 0).
LowerPool ==
  {i \in CandidatePool :
     Descriptor(i).nodeMajor.val < (IF nodeMajor.isNull THEN 0 ELSE nodeMajor.val)}

\* (major, minor, patch) of a is at most that of b, lexicographically.
TripleLeq(a, b) ==
  \/ a.major < b.major
  \/ a.major = b.major /\ a.minor < b.minor
  \/ a.major = b.major /\ a.minor = b.minor /\ a.patch <= b.patch

VersionLeq(v, w) == TripleLeq(parseSemver(v), parseSemver(w))

\* sel is one of the releases of S and no release of S has a higher version.
IsMaximumOf(sel, S) ==
  LET top == parseSemver(sel.version)
      pool == S
  IN /\ \E i \in pool : Tagged(Descriptor(i), sel.match) = sel
     /\ \A i \in pool : TripleLeq(parseSemver(Descriptor(i).version), top)

\* C1: with a non-null local major L and at least one surviving release whose
\* bundled major is L, pickElectronVersion returns a release of bundled major
\* L whose version is maximal among those, tagged "exact", whatever versions
\* the releases of other bundled majors carry.
C1_ExactIsMaximumOfExactPool ==
  (PickReturned /\ ~nodeMajor.isNull /\ ExactPool # {}) =>
    /\ ~selected.isNull
    /\ selected.match = "exact"
    /\ selected.nodeMajor = nodeMajor
    /\ IsMaximumOf(selected, ExactPool)

\* An exact match was returned although a candidate of another bundled major
\* carries a strictly higher version.
C1_Witness ==
  /\ PickReturned /\ ~nodeMajor.isNull /\ ExactPool # {}
  /\ selected.match = "exact"
  /\ Cardinality(ExactPool) >= 2
  /\ \E j \in CandidatePool \ ExactPool :
       ~VersionLeq(Descriptor(j).version, selected.version)

\* C2: with a non-null local major L, no candidate of bundled major L and at
\* least one candidate of bundled major below L, pickElectronVersion returns
\* the candidate of maximal version among those below L, tagged "lower".
C2_LowerIsMaximumOfLowerPool ==
  (PickReturned /\ ~nodeMajor.isNull /\ ExactPool = {} /\ LowerPool # {}) =>
    /\ ~selected.isNull
    /\ selected.match = "lower"
    /\ selected.nodeMajor.val < nodeMajor.val
    /\ IsMaximumOf(selected, LowerPool)

\* Local major 19, a candidate of bundled major 18 returned as "lower" while a
\* candidate of a higher bundled major carries a higher version.
C2_Witness ==
  /\ PickReturned /\ nodeMajor = Num(19) /\ ExactPool = {}
  /\ selected.match = "lower" /\ selected.nodeMajor = Num(18)
  /\ Cardinality(LowerPool) >= 2
  /\ \E j \in CandidatePool \ LowerPool :
       ~VersionLeq(Descriptor(j).version, selected.version)

\* C3: with a non-empty candidate pool holding no candidate of the local
\* major and none below it, pickElectronVersion returns the candidate of
\* maximal version of the whole pool, tagged "any".
C3_AnyIsMaximumOfWholePool ==
  (PickReturned /\ CandidatePool # {} /\ ExactPool = {} /\ LowerPool = {}) =>
    /\ ~selected.isNull
    /\ selected.match = "any"
    /\ IsMaximumOf(selected, CandidatePool)

\* A known local major below every bundled major of a pool of several
\* candidates: the newest one is returned as "any".
C3_Witness ==
  /\ PickReturned /\ nodeMajor = Num(17)
  /\ Cardinality(CandidatePool) >= 2
  /\ selected.match = "any"
  /\ \E i \in CandidatePool :
       /\ Descriptor(i).version # selected.version
       /\ VersionLeq(Descriptor(i).version, selected.version)

\* C4: pickElectronVersion returns null exactly when no release survives the
\* filtering; in particular the empty list gives null for every local major.
C4_NullIffNoCandidate ==
  PickReturned =>
    /\ selected.isNull <=> CandidatePool = {}
    /\ releases = <<>> => selected = NoSelection

\* Null was returned for a list that holds releases, none of which survives.
C4_Witness ==
  /\ PickReturned /\ selected.isNull
  /\ Len(releases) >= 2 /\ CandidatePool = {}

\* C5: the release returned, under any tag, is never a pre-release and never
\* an entry without a usable version string or a resolvable bundled major.
C5_ReturnedReleaseSurvivedFilters ==
  (PickReturned /\ ~selected.isNull) =>
    /\ selected.match \in {"exact", "lower", "any"}
    /\ selected.version # <<>>
    /\ ~selected.nodeMajor.isNull
    /\ \A k \in 1..Len(selected.version) : selected.version[k] # "-"
    /\ \E i \in CandidatePool : Tagged(Descriptor(i), selected.match) = selected

\* A release was returned from a list that also holds a pre-release of a
\* strictly higher version and an entry without a resolvable bundled major.
C5_Witness ==
  /\ PickReturned /\ ~selected.isNull
  /\ \E i \in 1..Len(releases) :
       /\ Includes(Descriptor(i).version, "-")
       /\ ~VersionLeq(Descriptor(i).version, selected.version)
  /\ \E i \in 1..Len(releases) : Descriptor(i).nodeMajor.isNull

\* C6: with a null local major the Exact and the Lower pool are empty for
\* every release list, so a non-empty candidate pool always gives the newest
\* candidate of the whole pool tagged "any", never "exact" or "lower".
C6_NullLocalMajorGivesAny ==
  (PickReturned /\ nodeMajor.isNull /\ CandidatePool # {}) =>
    /\ selected.match = "any"
    /\ IsMaximumOf(selected, CandidatePool)

(***************************************************************************)
(* copyDir as a call on the cache directory and an empty target.           *)
(***************************************************************************)
CachePath == resolve(TEMPLATE_DIR)

ProjPath == <<"proj">>

\* The entries a cache tree of the model may hold, by their path below the
\* cache root: files, directories, and entries that are neither.
CacheUniverse ==
  [rel \in {<<"a.txt">>, <<"dist">>, <<"dist", "x.js">>, <<"logs">>,
            <<".git">>, <<".git", "HEAD">>, <<"link">>, <<"src">>,
            <<"src", "dist">>, <<"src", "dist", "y.js">>, <<"src", "logs">>,
            <<"src", ".git">>, <<"src", "link">>} |->
     CASE rel \in {<<"dist">>, <<"logs">>, <<".git">>, <<"src">>,
                   <<"src", "dist">>, <<"src", ".git">>} -> DirNode
       [] rel \in {<<"link">>, <<"src", "link">>} -> LinkNode(rel)
       [] OTHER -> FileNode(rel)]

\* The sets of entries that form a tree: with an entry, its parent.
CacheTrees ==
  {T \in SUBSET DOMAIN CacheUniverse :
     \A rel \in T : Len(rel) > 1 => Dirname(rel) \in T}

\* The file system that holds tree T at the cache path and, when asked for,
\* an empty directory at the target path.
FsWithCache(T, withEmptyTarget) ==
  LET paths == {CachePath} \cup {CachePath \o rel : rel \in T}
                 \cup (IF withEmptyTarget THEN {ProjPath} ELSE {})
  IN [q \in paths |->
        IF q \in {CachePath, ProjPath} THEN DirNode
        ELSE CacheUniverse[SubSeq(q, Len(CachePath) + 1, Len(q))]]

InitCopy ==
  /\ pc = "copy_call"
  /\ \E T \in CacheTrees, withEmptyTarget \in BOOLEAN :
       fs = FsWithCache(T, withEmptyTarget)
  /\ fs0 = fs
  /\ targetDir = ProjPath
  /\ useMirror = FALSE
  /\ backendIndex = 0
  /\ installs = <<>>
  /\ exited = FALSE
  /\ exitCode = 0
  /\ asked = <<>>
  /\ overwriteAnswer = NotAsked
  /\ reuseChosen = FALSE
  /\ deleted = FALSE
  /\ copied = FALSE
  /\ firstWrite = "none"
  /\ copyFailed = FALSE
  /\ installDeclined = FALSE
  /\ NoEnvironment
  /\ NothingCompared
  /\ NothingPicked

CopyCall ==
  /\ pc = "copy_call"
  /\ fs' = copyDir(fs, CachePath, targetDir, TRUE).fs
  /\ copied' = TRUE
  /\ copyFailed' = copyDir(fs, CachePath, targetDir, TRUE).threw
  /\ pc' = "copy_return"
  /\ UNCHANGED <<envVars, cmpVars, pickVars, runVars, fs0, asked, overwriteAnswer,
                 reuseChosen, deleted, firstWrite, installDeclined>>

NextCopy == CopyCall

SpecCopy == InitCopy /\ [][NextCopy]_vars

CopyReturned == pc = "copy_return"

\* The entries of the cache, by their path below the cache root.
CacheEntries ==
  {SubSeq(q, Len(CachePath) + 1, Len(q)) :
     q \in {r \in DOMAIN fs0 : IsPrefix(CachePath, r) /\ r # CachePath}}

\* The entries of the target, by their path below the target root.
TargetEntries ==
  {SubSeq(q, Len(targetDir) + 1, Len(q)) :
     q \in {r \in DOMAIN fs : IsPrefix(targetDir, r) /\ r # targetDir}}

\* The files and directories of the cache that are not, and do not lie below,
\* a root-level entry named dist, logs or .git.
ExpectedCopies ==
  {rel \in CacheEntries :
     /\ rel[1] \notin {"dist", "logs", ".git"}
     /\ fs0[CachePath \o rel].kind \in {"file", "dir"}}

\* C9: copyDir from the cache root to an empty (or absent) target copies
\* every file and directory of the cache except the root-level entries named
\* dist, logs and .git; entries of those names below the root level are
\* copied in full; the cache itself is left as it was.
C9_CopyKeepsAllButRootIgnored ==
  CopyReturned =>
    /\ TargetEntries = ExpectedCopies
    /\ \A rel \in ExpectedCopies :
         fs[targetDir \o rel] = fs0[CachePath \o rel]
    /\ existsSync(fs, targetDir)
    /\ \A q \in DOMAIN fs0 : q \in DOMAIN fs /\ fs[q] = fs0[q]

\* The cache held a.txt, dist, logs and .git at its root and a dist with a
\* file below src: the target holds a.txt and src/dist/y.js and no dist.
C9_Witness ==
  /\ CopyReturned
  /\ {<<"a.txt">>, <<"dist", "x.js">>, <<"logs">>, <<".git", "HEAD">>,
      <<"src", "dist", "y.js">>, <<"src", "logs">>} \subseteq CacheEntries
  /\ {<<"a.txt">>, <<"src", "dist", "y.js">>, <<"src", "logs">>}
       \subseteq TargetEntries
  /\ <<"dist">> \notin TargetEntries

(***************************************************************************)
(* main(): the inputs of a run.                                            *)
(***************************************************************************)
\* What `node -v` may print: nothing, a version, or something else.
NodeOutputs ==
  {<<>>, <<"v", "2", "0", ".", "1", "1", ".", "1">>,
   <<"v", "1", "9", ".", "2", ".", "0">>, <<"a", "b", "c">>}

NpmOutputs == {<<>>, <<"1", "0", ".", "2", ".", "4">>}

\* Lines typed at the target directory question.
TargetLines ==
  {<<>>, <<".", "/", "i", "n", "i", "t", "_", "s", "r", "c">>, <<" ", "p", "r", "o", "j", " ">>}

\* Lines typed at a yes/no question.
ConfirmLines ==
  {<<>>, <<" ">>, <<"y">>, <<" ", "Y", "E", "S", " ">>, <<"n">>, <<"y", "e", "p">>}

\* Lines typed at the backend question.
BackendLines == {<<>>, <<"2">>, <<"3">>, <<"9">>, <<"0">>, <<"x">>}

\* Lines typed at the manual version question.
ManualLines ==
  {<<>>, <<" ">>, <<"v", "3", "0", ".", "0", ".", "0">>, <<" ", "3", "0", ".", "0", ".", "0", " ">>,
   <<"v", "v", "3", ".", "0", ".", "0">>}

\* What fetchJson may give: a rejection, JSON that is no array, or a list.
FeedOutcomes ==
  {[kind |-> "error", list |-> <<>>], [kind |-> "object", list |-> <<>>]}
    \cup {[kind |-> "array", list |-> l] :
            l \in {<<>>,
                   <<Release21_10_0, ReleaseTagged22_3_1, Release23_1_0>>,
                   <<Release21_10_0, Release23_1_0>>,
                   <<ReleaseBeta23_2_0, ReleaseNoMajor>>,
                   <<ReleaseNegativeMajor>>}}

\* What spawnSync may report of npm install: an exit status, or no status
\* with a signal or a spawn error.
InstallOutcomes ==
  {[status |-> Num(0), signal |-> FALSE, error |-> FALSE],
   [status |-> Num(1), signal |-> FALSE, error |-> FALSE],
   [status |-> Null, signal |-> TRUE, error |-> FALSE],
   [status |-> Null, signal |-> FALSE, error |-> TRUE]}

\* A cached scaffold, by the paths below the cache root.
CachedScaffold ==
  {<<"a.txt">>, <<"dist">>, <<"dist", "x.js">>, <<"src">>, <<"src", "dist">>,
   <<"src", "dist", "y.js">>}

\* The file systems a run may start on: the cache absent, empty or holding
\* a scaffold; the directory proj absent, empty or holding a file.
InitialFileSystems ==
  {[q \in (IF cache = "absent" THEN {}
           ELSE {CachePath} \cup
                (IF cache = "empty" THEN {}
                 ELSE {CachePath \o rel : rel \in CachedScaffold}))
          \cup (IF proj = "absent" THEN {}
                ELSE {ProjPath} \cup
                     (IF proj = "empty" THEN {} ELSE {Join(ProjPath, "old.txt")}))
      |->
        IF q \in {CachePath, ProjPath} THEN DirNode
        ELSE IF q = Join(ProjPath, "old.txt") THEN FileNode(<<"old">>)
        ELSE CacheUniverse[SubSeq(q, Len(CachePath) + 1, Len(q))]] :
     cache \in {"absent", "empty", "scaffold"},
     proj \in {"absent", "empty", "holding"}}

Init ==
  /\ pc = "start"
  /\ forceRebuild \in BOOLEAN
  /\ enableAudit \in BOOLEAN
  /\ isWindows \in BOOLEAN
  /\ nodeOut \in NodeOutputs
  /\ npmOut \in NpmOutputs
  /\ fs \in InitialFileSystems
  /\ fs0 = fs
  /\ RunNotStarted
  /\ NothingPicked
  /\ NothingCompared

(***************************************************************************)
(* main(): the generated tree.  A file's content is a tuple that names the *)
(* template it was rendered from and the parameters that reach it.         *)
(***************************************************************************)
Template(name) == <<"template", name>>

\* The subdirectories created below the target.
ScaffoldDirs ==
  <<<<"src", "frontend">>, <<"src", "backend">>, <<"src", "electron">>,
    <<"docs">>, <<"scripts">>, <<"data">>, <<"logs">>, <<"dist">>>>

BackendKeys == <<"node", "python-fastapi", "golang-gin">>

\* backend.createFiles: the files of the chosen backend.
BackendFiles(index) ==
  CASE index = 0 ->
         <<[path |-> <<"src", "backend", "index.js">>,
            content |-> Template("buildNodeBackend")]>>
    [] index = 1 ->
         <<[path |-> <<"src", "backend", "app.py">>,
            content |-> Template("buildFastApiBackend")],
           [path |-> <<"src", "backend", "requirements.txt">>,
            content |-> Template("requirements")]>>
    [] index = 2 ->
         <<[path |-> <<"src", "backend", "main.go">>,
            content |-> Template("buildGinBackend")],
           [path |-> <<"src", "backend", "go.mod">>,
            content |-> Template("go.mod")]>>

\* buildScripts: four scripts, named and written for the host's shell, with
\* the start command of the chosen backend.
ScriptFiles(windows, index) ==
  LET script(posix, win) ==
        [path |-> <<"scripts", IF windows THEN win ELSE posix>>,
         content |-> <<"script", IF windows THEN win ELSE posix,
                       BackendKeys[index + 1]>>]
  IN <<script("start.sh", "start.ps1"), script("dev.sh", "dev.ps1"),
       script("build.sh", "build.ps1"),
       script("start-backend.sh", "start-backend.ps1")>>

\* The lines of .npmrc.
NpmrcLines(mirror, audit) ==
  (IF mirror THEN <<"registry", "electron_mirror">> ELSE <<>>)
    \o (IF ~audit THEN <<"audit=false">> ELSE <<>>)

\* Every file main() writes below the target, in the order it writes them.
GeneratedFiles(windows, audit, mirror, index, version) ==
  <<[path |-> <<".gitignore">>, content |-> Template("buildGitignore")],
    [path |-> <<"docs", "README.md">>, content |-> Template("buildDocs")],
    [path |-> <<"src", "frontend", "index.html">>,
     content |-> Template("buildFrontendIndexHtml")],
    [path |-> <<"src", "frontend", "package.json">>,
     content |-> Template("buildFrontendPackageJson")],
    [path |-> <<"src", "frontend", "vite.config.ts">>,
     content |-> Template("buildFrontendViteConfig")],
    [path |-> <<"src", "frontend", "tsconfig.json">>,
     content |-> Template("buildFrontendTsconfig")],
    [path |-> <<"src", "frontend", "tsconfig.node.json">>,
     content |-> Template("buildFrontendTsconfigNode")],
    [path |-> <<"src", "frontend", "postcss.config.cjs">>,
     content |-> Template("buildFrontendPostcssConfig")],
    [path |-> <<"src", "frontend", "tailwind.config.ts">>,
     content |-> Template("buildFrontendTailwindConfig")],
    [path |-> <<"src", "frontend", "components.json">>,
     content |-> Template("buildFrontendComponentsJson")],
    [path |-> <<"src", "frontend", "src", "main.tsx">>,
     content |-> Template("buildFrontendMainTsx")],
    [path |-> <<"src", "frontend", "src", "App.tsx">>,
     content |-> Template("buildFrontendAppTsx")],
    [path |-> <<"src", "frontend", "src", "index.css">>,
     content |-> Template("buildFrontendCss")],
    [path |-> <<"src", "frontend", "src", "lib", "utils.ts">>,
     content |-> Template("buildFrontendUtils")],
    [path |-> <<"src", "frontend", "src", "vite-env.d.ts">>,
     content |-> Template("buildFrontendViteEnv")],
    [path |-> <<"src", "electron", "main.js">>,
     content |-> Template("buildElectronMain")],
    [path |-> <<"src", "electron", "preload.js">>,
     content |-> Template("buildElectronPreload")]>>
  \o BackendFiles(index)
  \o ScriptFiles(windows, index)
  \o <<[path |-> <<"package.json">>,
        content |-> <<"devDependencies.electron">> \o normalizeVersion(version)]>>
  \o (IF NpmrcLines(mirror, audit) # <<>>
        THEN <<[path |-> <<".npmrc">>, content |-> NpmrcLines(mirror, audit)]>>
        ELSE <<>>)

\* dirs.forEach((d) => ensureDir(path.join(targetDir, d)))
RECURSIVE EnsureAll(_, _, _)
EnsureAll(f, root, dirs) ==
  IF dirs = <<>> THEN f
  ELSE EnsureAll(ensureDir(f, root \o Head(dirs)), root, Tail(dirs))

\* The writeFile calls of main(), one after the other.
RECURSIVE WriteAll(_, _, _)
WriteAll(f, root, files) ==
  IF files = <<>> THEN f
  ELSE WriteAll(writeFile(f, root \o Head(files).path, Head(files).content),
                root, Tail(files))

(***************************************************************************)
(* main(): the steps of a run.                                             *)
(***************************************************************************)
\* process.exit(code), or main() returning (code 0).
Exit(code) == exited' = TRUE /\ exitCode' = code /\ pc' = "exited"

Continue(next) == pc' = next /\ UNCHANGED <<exited, exitCode>>

\* How a directory looks to a write that is about to begin.
DirState(f, dir) ==
  IF ~existsSync(f, dir) THEN "absent"
  ELSE IF isEmptyDir(f, dir) THEN "empty" ELSE "nonempty"

\* The history of the first write into the target.
NoteFirstWrite ==
  firstWrite' = IF firstWrite = "none" THEN DirState(fs, targetDir)
                ELSE firstWrite

\* Lines 844-848: the node probe.
ProbeNode ==
  /\ pc = "start"
  /\ IF getNodeVersion(nodeOut) = <<>> THEN Exit(1) ELSE Continue("probe_npm")
  /\ UNCHANGED <<fs, envVars, cmpVars, pickVars, targetDir, useMirror, backendIndex,
                 installs, histVars>>

\* Lines 850-854: the npm probe.
ProbeNpm ==
  /\ pc = "probe_npm"
  /\ IF npmOut = <<>> THEN Exit(1) ELSE Continue("target")
  /\ UNCHANGED <<fs, envVars, cmpVars, pickVars, targetDir, useMirror, backendIndex,
                 installs, histVars>>

\* Lines 861-872: the target directory, asked for unless --force.
ChooseTarget ==
  /\ pc = "target"
  /\ IF forceRebuild
       THEN targetDir' = resolve(TEMPLATE_DIR) /\ asked' = asked
       ELSE \E line \in TargetLines :
              /\ targetDir' = resolve(promptLine(line, DEFAULT_TARGET))
              /\ asked' = Append(asked, "target")
  /\ Continue("clear")
  /\ UNCHANGED <<fs, envVars, cmpVars, pickVars, useMirror, backendIndex, installs,
                 fs0, overwriteAnswer, reuseChosen, deleted, copied,
                 firstWrite, copyFailed, installDeclined>>

\* Mutant of ClearTarget: the target is left as it is and nothing is asked.
ClearTarget_NoClear ==
  /\ pc = "clear"
  /\ Continue("reuse")
  /\ UNCHANGED <<fs, envVars, cmpVars, pickVars, targetDir, useMirror,
                 backendIndex, installs, histVars>>

\* Lines 884-885: the target is cleared.
ClearNow ==
  /\ fs' = rmSync(fs, targetDir)
  /\ deleted' = TRUE
  /\ Continue("reuse")

\* Lines 874-886: a target that exists and is not empty is cleared, after
\* the overwrite question unless --force.
ClearTarget ==
  /\ pc = "clear"
  /\ IF existsSync(fs, targetDir) /\ ~isEmptyDir(fs, targetDir)
       THEN IF forceRebuild
              THEN ClearNow /\ UNCHANGED <<asked, overwriteAnswer>>
              ELSE \E line \in ConfirmLines :
                     /\ asked' = Append(asked, "overwrite")
                     /\ overwriteAnswer' = Answered(line)
                     /\ IF confirm(line, FALSE)
                          THEN ClearNow
                          ELSE Exit(1) /\ UNCHANGED <<fs, deleted>>
       ELSE Continue("reuse")
              /\ UNCHANGED <<fs, deleted, asked, overwriteAnswer>>
  /\ UNCHANGED <<envVars, cmpVars, pickVars, targetDir, useMirror, backendIndex,
                 installs, fs0, reuseChosen, copied, firstWrite,
                 copyFailed, installDeclined>>

\* Lines 895-917: the cached scaffold is used: in place, or copied.
\* copyThrows: copyDir throws (an I/O error), here before it wrote anything.
UseLocalTemplate(copyThrows) ==
  LET templateDir == resolve(TEMPLATE_DIR)
  IN /\ reuseChosen' = TRUE
     /\ IF ~existsSync(fs, templateDir) \/ isEmptyDir(fs, templateDir)
          THEN Exit(1) /\ UNCHANGED <<fs, copied, firstWrite, copyFailed>>
          ELSE IF templateDir = targetDir
            THEN Exit(0) /\ UNCHANGED <<fs, copied, firstWrite, copyFailed>>
            ELSE /\ copied' = TRUE
                 /\ NoteFirstWrite
                 /\ IF copyThrows \/ copyDir(fs, templateDir, targetDir, TRUE).threw
                      THEN copyFailed' = TRUE /\ Exit(1) /\ UNCHANGED fs
                      ELSE /\ fs' = copyDir(fs, templateDir, targetDir, TRUE).fs
                           /\ Exit(0)
                           /\ UNCHANGED copyFailed

\* Lines 888-918: the reuse question, not put under --force.
ReuseOrGenerate ==
  /\ pc = "reuse"
  /\ IF forceRebuild
       THEN Continue("mirror")
              /\ UNCHANGED <<fs, asked, reuseChosen, copied, firstWrite,
                             copyFailed>>
       ELSE \E line \in ConfirmLines, copyThrows \in BOOLEAN :
              /\ asked' = Append(asked, "reuse")
              /\ IF confirm(line, FALSE)
                   THEN UseLocalTemplate(copyThrows)
                   ELSE Continue("mirror")
                          /\ UNCHANGED <<fs, reuseChosen, copied, firstWrite,
                                         copyFailed>>
  /\ UNCHANGED <<envVars, cmpVars, pickVars, targetDir, useMirror, backendIndex,
                 installs, fs0, overwriteAnswer, deleted, installDeclined>>

\* Line 920: the mirror question.
AskMirror ==
  /\ pc = "mirror"
  /\ \E line \in ConfirmLines :
       /\ useMirror' = confirm(line, FALSE)
       /\ asked' = Append(asked, "mirror")
  /\ Continue("backend")
  /\ UNCHANGED <<fs, envVars, cmpVars, pickVars, targetDir, backendIndex, installs,
                 fs0, overwriteAnswer, reuseChosen, deleted, copied,
                 firstWrite, copyFailed, installDeclined>>

\* Math.max(1, Math.min(backends.length, parseInt(backendInput, 10) || 1)) - 1
BackendIndexOf(backendInput) ==
  LET parsed == ParseInt(backendInput)
      choice == IF parsed.isNaN \/ parsed.val = 0 THEN 1 ELSE parsed.val
      capped == IF choice > Len(BackendKeys) THEN Len(BackendKeys) ELSE choice
  IN (IF capped < 1 THEN 1 ELSE capped) - 1

\* Lines 970-976: the backend question.
AskBackend ==
  /\ pc = "backend"
  /\ \E line \in BackendLines :
       /\ backendIndex' = BackendIndexOf(promptLine(line, <<"1">>))
       /\ asked' = Append(asked, "backend")
  /\ Continue("fetch")
  /\ UNCHANGED <<fs, envVars, cmpVars, pickVars, targetDir, useMirror, installs,
                 fs0, overwriteAnswer, reuseChosen, deleted, copied,
                 firstWrite, copyFailed, installDeclined>>

\* Lines 978-992: the local major, the release feed and the matcher.
FetchAndPick ==
  /\ pc = "fetch"
  /\ nodeMajor' = parseMajor(getNodeVersion(nodeOut))
  /\ \E feed \in FeedOutcomes :
       /\ releases' = feed.list
       /\ selected' = IF feed.kind = "array"
                        THEN pickElectronVersion(feed.list, nodeMajor')
                        ELSE NoSelection
  /\ Continue(IF selected'.isNull THEN "manual" ELSE "confirm")
  /\ UNCHANGED <<fs, envVars, cmpVars, targetDir, useMirror, backendIndex, installs,
                 histVars>>

\* { version: manual, node: "unknown" }
ManualSelection(manual) ==
  [isNull |-> FALSE, version |-> manual,
   node |-> <<"u", "n", "k", "n", "o", "w", "n">>, nodeMajor |-> Null, match |-> "none"]

\* Lines 994-1003: no version was selected, one is asked for.
AskManualVersion ==
  /\ pc = "manual"
  /\ \E line \in ManualLines :
       /\ asked' = Append(asked, "manual")
       /\ IF promptLine(line, <<>>) = <<>>
            THEN Exit(1) /\ UNCHANGED selected
            ELSE /\ selected' = ManualSelection(promptLine(line, <<>>))
                 /\ Continue("confirm")
  /\ UNCHANGED <<fs, envVars, cmpVars, releases, nodeMajor, targetDir, useMirror,
                 backendIndex, installs, fs0, overwriteAnswer, reuseChosen,
                 deleted, copied, firstWrite, copyFailed, installDeclined>>

\* Mutant of ConfirmInstall: the answer is not acted upon.
ConfirmInstall_IgnoresAnswer ==
  /\ pc = "confirm"
  /\ \E line \in ConfirmLines :
       /\ asked' = Append(asked, "install")
       /\ installDeclined' = ~confirm(line, TRUE)
       /\ Continue("mkdirs")
  /\ UNCHANGED <<fs, envVars, cmpVars, pickVars, targetDir, useMirror, backendIndex,
                 installs, fs0, overwriteAnswer, reuseChosen, deleted, copied,
                 firstWrite, copyFailed>>

\* Lines 1005-1022: the install question (default yes).
ConfirmInstall ==
  /\ pc = "confirm"
  /\ \E line \in ConfirmLines :
       /\ asked' = Append(asked, "install")
       /\ installDeclined' = ~confirm(line, TRUE)
       /\ IF confirm(line, TRUE) THEN Continue("mkdirs") ELSE Exit(1)
  /\ UNCHANGED <<fs, envVars, cmpVars, pickVars, targetDir, useMirror, backendIndex,
                 installs, fs0, overwriteAnswer, reuseChosen, deleted, copied,
                 firstWrite, copyFailed>>

\* Lines 1024-1037: the target and its subdirectories are created.
MakeDirs ==
  /\ pc = "mkdirs"
  /\ NoteFirstWrite
  /\ fs' = EnsureAll(ensureDir(fs, targetDir), targetDir, ScaffoldDirs)
  /\ Continue("write")
  /\ UNCHANGED <<envVars, cmpVars, pickVars, targetDir, useMirror, backendIndex,
                 installs, fs0, asked, overwriteAnswer, reuseChosen, deleted,
                 copied, copyFailed, installDeclined>>

\* Lines 1039-1104: the files are written.
WriteFiles ==
  /\ pc = "write"
  /\ fs' = WriteAll(fs, targetDir,
                    GeneratedFiles(isWindows, enableAudit, useMirror,
                                   backendIndex, selected.version))
  /\ Continue("install_root")
  /\ UNCHANGED <<envVars, cmpVars, pickVars, targetDir, useMirror, backendIndex,
                 installs, histVars>>

\* Mutant of runNpmInstall: the status of npm install is not looked at.
runNpmInstall_IgnoreStatus(cwd, label, next) ==
  \E outcome \in InstallOutcomes :
    /\ installs' = Append(installs,
                          [label |-> label, cwd |-> cwd, outcome |-> outcome])
    /\ Continue(next)

\* runNpmInstall(cwd, env, label): npm install runs in cwd; anything but
\* status 0 ends the process with code 1.
runNpmInstall(cwd, label, next) ==
  \E outcome \in InstallOutcomes :
    /\ installs' = Append(installs,
                          [label |-> label, cwd |-> cwd, outcome |-> outcome])
    /\ IF StrictEquals(outcome.status, Num(0)) THEN Continue(next) ELSE Exit(1)

\* Line 1110.
InstallRoot ==
  /\ pc = "install_root"
  /\ runNpmInstall(targetDir, "root", "install_frontend")
  /\ UNCHANGED <<fs, envVars, cmpVars, pickVars, targetDir, useMirror, backendIndex,
                 histVars>>

\* Line 1111.
InstallFrontend ==
  /\ pc = "install_frontend"
  /\ runNpmInstall(targetDir \o <<"src", "frontend">>, "frontend", "finish")
  /\ UNCHANGED <<fs, envVars, cmpVars, pickVars, targetDir, useMirror, backendIndex,
                 histVars>>

\* Lines 1113-1115: main() returns.
Finish ==
  /\ pc = "finish"
  /\ Exit(0)
  /\ UNCHANGED <<fs, envVars, cmpVars, pickVars, targetDir, useMirror, backendIndex,
                 installs, histVars>>

Next ==
  \/ ProbeNode
  \/ ProbeNpm
  \/ ChooseTarget
  \/ ClearTarget
  \/ ReuseOrGenerate
  \/ AskMirror
  \/ AskBackend
  \/ FetchAndPick
  \/ AskManualVersion
  \/ ConfirmInstall
  \/ MakeDirs
  \/ WriteFiles
  \/ InstallRoot
  \/ InstallFrontend
  \/ Finish

Spec == Init /\ [][Next]_vars

(***************************************************************************)
(* Properties of a run.                                                    *)
(***************************************************************************)
\* The lines of the model that say yes: y or yes, in any case, blanks around.
AffirmativeLines == {<<"y">>, <<" ", "Y", "E", "S", " ">>}

\* An explicit affirmative answer was given to the overwrite question.
OverwriteConfirmed ==
  overwriteAnswer.given /\ overwriteAnswer.line \in AffirmativeLines

\* The overwrite question was answered, and not with a yes: declined, or
\* left at its default by an empty line.
OverwriteDeclined ==
  overwriteAnswer.given /\ overwriteAnswer.line \notin AffirmativeLines

\* The run is past the step that clears the target (lines 874-886).
PastClearStep == targetDir # <<>> /\ pc # "clear"

\* When the run started the target directory existed and held entries.
TargetHeldEntries ==
  /\ targetDir \in DOMAIN fs0
  /\ \E q \in DOMAIN fs0 : IsPrefix(targetDir, q) /\ q # targetDir

\* C7 as stated: the recursive delete of the target is invoked if and only
\* if an explicit affirmative overwrite confirmation was received or --force
\* was given; a declined or defaulted answer never leads to the delete and
\* ends the run with exit code 1.
C7_DeleteIffConfirmedOrForce ==
  /\ deleted => PastClearStep
  /\ PastClearStep => (deleted <=> (OverwriteConfirmed \/ forceRebuild))
  /\ OverwriteDeclined => (~deleted /\ exited /\ exitCode = 1)

\* C7 amended: the recursive delete of the target is invoked if and only if
\* an explicit affirmative overwrite confirmation was received, or --force
\* was given and the target directory existed and was not empty; a declined
\* or defaulted answer never leads to the delete and ends the run with exit
\* code 1.
C7_DeleteIffConfirmedOrForcedNonEmpty ==
  /\ deleted => PastClearStep
  /\ PastClearStep =>
       (deleted <=>
          (OverwriteConfirmed \/ (forceRebuild /\ TargetHeldEntries)))
  /\ OverwriteDeclined => (~deleted /\ exited /\ exitCode = 1)

\* The overwrite question was answered with a yes and the target, which held
\* entries, was deleted.
C7_Witness ==
  /\ ~forceRebuild /\ OverwriteConfirmed /\ TargetHeldEntries
  /\ deleted /\ ~existsSync(fs, targetDir)

\* C8: when the first directory creation, file write or cache copy into the
\* target begins, on the Populating and on the Reusing path, the target is
\* absent or empty; a target that existed and was not empty has been deleted
\* earlier in the run.
C8_FirstWriteFindsTargetAbsentOrEmpty ==
  /\ firstWrite \in {"none", "absent", "empty"}
  /\ (firstWrite # "none" /\ TargetHeldEntries) => deleted
  /\ (copied \/ pc \in {"write", "install_root", "install_frontend", "finish"})
       => firstWrite # "none"

\* A target that held entries was deleted and the cache was then copied
\* into it.
C8_Witness ==
  /\ TargetHeldEntries /\ deleted /\ copied
  /\ firstWrite = "absent"
  /\ exited /\ exitCode = 0

\* C10: on the Reusing path, when the cache path and the target path are the
\* same path, the copy is skipped and both trees are as they were before the
\* run.
C10_InPlaceReuseChangesNothing ==
  (reuseChosen /\ targetDir = resolve(TEMPLATE_DIR)) =>
    (~copied /\ fs = fs0)

(***************************************************************************)
(* Properties of the installation.                                         *)
(***************************************************************************)
\* npm install ended with exit status 0.
Succeeded(outcome) == StrictEquals(outcome.status, Num(0))

\* C11: the install invocations run in the order root, then frontend, and
\* the frontend install is never started when the root install ended with a
\* non-zero status, a signal or a spawn error: the run has then ended with
\* exit code 1.
C11_RootThenFrontendUnlessRootFailed ==
  /\ Len(installs) <= 2
  /\ Len(installs) >= 1 =>
       /\ installs[1].label = "root"
       /\ installs[1].cwd = targetDir
       /\ ~Succeeded(installs[1].outcome) =>
            (Len(installs) = 1 /\ exited /\ exitCode = 1)
  /\ Len(installs) = 2 =>
       /\ installs[2].label = "frontend"
       /\ installs[2].cwd = targetDir \o <<"src", "frontend">>
       /\ Succeeded(installs[1].outcome)

\* The root install was killed by a signal: the run ended with code 1 and
\* no frontend install.
C11_Witness ==
  /\ Len(installs) = 1
  /\ installs[1].label = "root" /\ installs[1].outcome.signal
  /\ exited /\ exitCode = 1

\* The run ended successfully after it produced a scaffold in the target:
\* written from the templates, or copied from the cache.
ScaffoldProducedAndDone ==
  exited /\ exitCode = 0 /\ (copied \/ firstWrite # "none")

\* Both installs were run against the produced tree, root then frontend.
InstalledRootThenFrontend ==
  /\ Len(installs) = 2
  /\ installs[1].label = "root" /\ installs[1].cwd = targetDir
  /\ installs[2].label = "frontend"
  /\ installs[2].cwd = targetDir \o <<"src", "frontend">>

\* C12: every run that produced a scaffold and ended successfully, written
\* from the templates or copied from the cache, has run the dependency
\* installation against the produced tree, root install then frontend
\* install.
C12_SuccessfulScaffoldWasInstalled ==
  ScaffoldProducedAndDone => InstalledRootThenFrontend

(***************************************************************************)
(* Properties of the probes and of the prompts.                            *)
(***************************************************************************)
\* C13: when the probe of the local runtime version gives no output the run
\* does not abort at the probe (with npm at hand a run that has ended got as
\* far as its target directory), the local major is unknown and the version
\* the matcher selects is tagged any.
C13_NoProbeOutputDoesNotAbort ==
  nodeOut = <<>> =>
    /\ (exited /\ npmOut # <<>>) => targetDir # <<>>
    /\ (~selected.isNull /\ selected.match # "none") =>
         (nodeMajor.isNull /\ selected.match = "any")

\* C14: a run started with --force puts no question to the user, from its
\* start to its end.
C14_ForceAsksNothing == forceRebuild => asked = <<>>

(***************************************************************************)
(* Properties of the exit code.                                            *)
(***************************************************************************)
\* The node probe has acted and found no version.
NodeMissing == pc # "start" /\ getNodeVersion(nodeOut) = <<>>

\* The npm probe has acted, or was never reached, and npm gives no version.
NpmMissing == pc \notin {"start", "probe_npm"} /\ npmOut = <<>>

\* Reuse of the cache was asked for and the cache was missing or empty.
CacheMissingOnReuse ==
  reuseChosen /\ (~existsSync(fs, CachePath) \/ isEmptyDir(fs, CachePath))

\* The matcher selected nothing and the manual version question, the last
\* one put, was answered with nothing.
NoVersionAtAll ==
  selected.isNull /\ asked # <<>> /\ asked[Len(asked)] = "manual"

\* An npm install ended with something else than status 0.
InstallFailed == \E i \in 1..Len(installs) : ~Succeeded(installs[i].outcome)

\* One of the cases that end a run with exit code 1.
FailureCase ==
  \/ OverwriteDeclined
  \/ NodeMissing
  \/ NpmMissing
  \/ CacheMissingOnReuse
  \/ copyFailed
  \/ NoVersionAtAll
  \/ installDeclined
  \/ InstallFailed

\* C15: a run ends with exit code 1 when the overwrite was declined, node or
\* npm is missing, the cache is missing or empty on a requested reuse, the
\* copy failed, no version was resolved and none entered, the install was
\* declined or an install subprocess failed; it ends with exit code 0 only
\* when none of these occurred.
C15_ExitCodeOneOnEveryFailureCase ==
  /\ FailureCase => (exited /\ exitCode = 1)
  /\ (exited /\ exitCode = 0) => ~FailureCase
  /\ exited => exitCode \in {0, 1}

\* The feed could not be fetched, nothing was entered at the manual version
\* question, and the run ended with exit code 1.
C15_Witness ==
  /\ NoVersionAtAll /\ releases = <<>>
  /\ ~OverwriteDeclined /\ ~NodeMissing /\ ~NpmMissing
  /\ ~CacheMissingOnReuse /\ ~copyFailed /\ ~installDeclined /\ ~InstallFailed
  /\ exited /\ exitCode = 1

(***************************************************************************)
(* Properties of the generated root manifest.                              *)
(***************************************************************************)
RootManifest == targetDir \o <<"package.json">>

\* A version string without its leading marker "v", if it has one; every
\* other character stays.
WithoutLeadingMarker(v) ==
  IF Len(v) > 0 /\ v[1] = "v" THEN SubSeq(v, 2, Len(v)) ELSE v

\* The selection is what the matcher returned for the feed, or else a line
\* entered at the manual version question, without the blanks around it.
SelectionIsMatchedOrEntered ==
  IF selected.match # "none"
    THEN selected = pickElectronVersion(releases, nodeMajor)
    ELSE \E line \in ManualLines : selected.version = Trim(line)

\* C16: the generated root manifest pins as the electron dependency the
\* version string that the matcher returned or that was entered manually,
\* with one leading marker character removed and nothing else changed.
C16_ManifestPinsSelectedVersion ==
  /\ pc \in {"install_root", "install_frontend", "finish"} =>
       existsSync(fs, RootManifest)
  /\ (targetDir # <<>> /\ existsSync(fs, RootManifest)) =>
       /\ SelectionIsMatchedOrEntered
       /\ fs[RootManifest].content =
            <<"devDependencies.electron">> \o WithoutLeadingMarker(selected.version)

\* The local major is 20, the feed holds the exact match tagged v22.3.1 next
\* to others, and the manifest pins 22.3.1.
C16_Witness ==
  /\ nodeMajor = Num(20) /\ selected.match = "exact"
  /\ Len(releases) = 3 /\ releases[2] = ReleaseTagged22_3_1
  /\ existsSync(fs, RootManifest)
  /\ fs[RootManifest].content =
       <<"devDependencies.electron", "2", "2", ".", "3", ".", "1">>

(***************************************************************************)
(* Properties of malformed versions.                                       *)
(***************************************************************************)
\* A version string is well formed when, without a leading "v" and without
\* its pre-release suffix, it is major.minor.patch, each written in digits.
IsWellFormed(version) ==
  LET pieces == Split(Split(normalizeVersion(version), "-")[1], ".")
  IN /\ Len(pieces) = 3
     /\ \A i \in 1..3 :
          /\ pieces[i] # <<>>
          /\ \A j \in 1..Len(pieces[i]) : IsDigit(pieces[i][j])

\* C17: a release whose version string is malformed is never returned by
\* pickElectronVersion, whatever the tag, and in comparison it sorts
\* strictly below every well-formed version.
C17_MalformedNeverReturnedAndSortsLowest ==
  PickReturned =>
    /\ ~selected.isNull => IsWellFormed(selected.version)
    /\ \A i, j \in 1..Len(releases) :
         (/\ Descriptor(i).version # <<>>
          /\ ~IsWellFormed(Descriptor(i).version)
          /\ IsWellFormed(Descriptor(j).version))
           => compareSemver(parseSemver(Descriptor(i).version),
                            parseSemver(Descriptor(j).version)) < 0

(***************************************************************************)
(* parseSemver and compareSemver as calls on arbitrary version strings.    *)
(***************************************************************************)
\* Version strings as a feed or a user may give them.
VersionPool ==
  {<<"2", ".", "1", "0", ".", "0">>,
   <<"2", ".", "9", ".", "9">>,
   <<"2", ".", "9", ".", "1", "0">>,
   <<"2", ".", "1", "0", ".", "0", "-", "b", "e", "t", "a", ".", "1">>,
   <<"v", "2", ".", "1", "0", ".", "0">>,
   <<"1", ".", "0", ".", "0">>,
   <<"3", ".", "0", ".", "1">>,
   <<"2", ".", "1", "0">>,
   <<"a", "b", "c">>}

InitCompare ==
  /\ pc = "compare_call"
  /\ cmpVersions \in [1..3 -> VersionPool]
  /\ cmpResults = NoComparison
  /\ NoEnvironment
  /\ NothingPicked
  /\ RunNotStarted
  /\ fs = EmptyFs
  /\ fs0 = EmptyFs

\* compareSemver(parseSemver(x), parseSemver(y)) for the pairs of the three
\* version strings.
CompareCall ==
  LET a == parseSemver(cmpVersions[1])
      b == parseSemver(cmpVersions[2])
      c == parseSemver(cmpVersions[3])
  IN /\ pc = "compare_call"
     /\ cmpResults' = [ab |-> compareSemver(a, b), ba |-> compareSemver(b, a),
                       bc |-> compareSemver(b, c), ac |-> compareSemver(a, c)]
     /\ pc' = "compare_return"
     /\ UNCHANGED <<cmpVersions, fs, envVars, pickVars, runVars, histVars>>

NextCompare == CompareCall

SpecCompare == InitCompare /\ [][NextCompare]_vars

(***************************************************************************)
(* Properties of the comparison.                                           *)
(***************************************************************************)
CompareReturned == pc = "compare_return"

Sign(n) == IF n > 0 THEN 1 ELSE IF n < 0 THEN 0 - 1 ELSE 0

\* x comes after y in the order of (major, minor, patch), major first.
ComesAfter(x, y) ==
  \/ x.major > y.major
  \/ x.major = y.major /\ x.minor > y.minor
  \/ x.major = y.major /\ x.minor = y.minor /\ x.patch > y.patch

\* A version string without its pre-release suffix.
WithoutSuffix(v) == Split(v, "-")[1]

\* C18: compareSemver over parsed versions is a total order that is
\* lexicographic on (major, minor, patch), major first: its sign is the sign
\* of the first component that differs, it is 0 exactly when the three
\* components are equal, it is antisymmetric and transitive, and two
\* versions that differ only in their pre-release suffix compare equal.
C18_CompareIsLexicographicTotalOrder ==
  CompareReturned =>
    LET a == parseSemver(cmpVersions[1])
        b == parseSemver(cmpVersions[2])
        c == parseSemver(cmpVersions[3])
        r == cmpResults
    IN /\ Sign(r.ab) = 1 <=> ComesAfter(a, b)
       /\ Sign(r.ab) = 0 - 1 <=> ComesAfter(b, a)
       /\ r.ab = 0 <=>
            (a.major = b.major /\ a.minor = b.minor /\ a.patch = b.patch)
       /\ Sign(r.ab) = 0 - Sign(r.ba)
       /\ (r.ab <= 0 /\ r.bc <= 0) => r.ac <= 0
       /\ (r.ab < 0 /\ r.bc <= 0) => r.ac < 0
       /\ (r.ab <= 0 /\ r.bc < 0) => r.ac < 0
       /\ WithoutSuffix(cmpVersions[1]) = WithoutSuffix(cmpVersions[2])
            => r.ab = 0

\* 2.10.0 was compared with 2.9.9 and came out greater; 2.10.0-beta.1 was
\* compared with 2.10.0 and came out equal.
C18_Witness ==
  /\ CompareReturned
  /\ cmpVersions[1] = <<"2", ".", "1", "0", ".", "0">>
  /\ cmpVersions[2] = <<"2", ".", "9", ".", "9">>
  /\ cmpVersions[3] =
       <<"2", ".", "1", "0", ".", "0", "-", "b", "e", "t", "a", ".", "1">>
  /\ cmpResults.ab > 0 /\ cmpResults.ba < 0 /\ cmpResults.ac = 0

(***************************************************************************)
(* Properties of a reuse of the cache in its own place.                    *)
(***************************************************************************)
\* The run has no --force, its target is the cache directory, and the user
\* opted to reuse the cache.
ReuseOfCacheAsTarget ==
  ~forceRebuild /\ reuseChosen /\ targetDir = CachePath

\* When the run started the cache directory held entries.
CacheHeldEntries ==
  /\ CachePath \in DOMAIN fs0
  /\ \E q \in DOMAIN fs0 : IsPrefix(CachePath, q) /\ q # CachePath

\* C19: in a run without --force whose target is the cache directory and in
\* which the user opts to reuse the cache, the cache is not used in place:
\* the cache was deleted by this run or was empty or absent already, and the
\* run ends with exit code 1.
C19_ReuseInPlaceAlwaysFails ==
  ReuseOfCacheAsTarget =>
    /\ exited /\ exitCode = 1
    /\ ~copied
    /\ ~existsSync(fs, CachePath) \/ isEmptyDir(fs, CachePath)
    /\ CacheHeldEntries => (deleted /\ OverwriteConfirmed)
    /\ ~CacheHeldEntries => (~deleted /\ fs = fs0)

\* The cache held a scaffold, the overwrite of the default target was
\* confirmed, the cache was deleted, reuse was asked for, and the run ended
\* with exit code 1.
C19_Witness ==
  /\ ReuseOfCacheAsTarget /\ CacheHeldEntries
  /\ asked = <<"target", "overwrite", "reuse">>
  /\ deleted /\ ~existsSync(fs, CachePath)
  /\ exited /\ exitCode = 1

=============================================================================
